---- MODULE Spec2Model ----
(***************************************************************************)
(* Model of the Seal encryption / access-control service of Cyphra        *)
(* (cyphra_backend/app/seal/service.py, seal/routes.py, core/config.py).   *)
(*                                                                         *)
(* The service object holds only its configuration (key_servers,           *)
(* threshold); everything else is passed in and out of its methods.  The   *)
(* model therefore keeps, next to the configuration, the values the        *)
(* methods have handed to their callers (policy ids, envelopes) and the    *)
(* record of the running / last call of encrypt_data and decrypt_data.     *)
(*                                                                         *)
(* Library cryptography is modelled symbolically: an AES-CBC ciphertext    *)
(* remembers the key, IV and padded plaintext it was made from, an         *)
(* RSA-OAEP ciphertext remembers the key pair and the message.  Opening    *)
(* with a different key / IV or an altered ciphertext yields other bytes   *)
(* of the same length (CBC carries no authentication).                     *)
(***************************************************************************)
EXTENDS Integers, Sequences, FiniteSets, TLC

\* ------------------------------------------------------------------ bounds

\* SEAL_THRESHOLD ranges over 1..MaxThreshold
MaxThreshold == 2
\* os.urandom(32) draws the symmetric key from 1..NumKeys
NumKeys == 1
\* os.urandom(16) draws the IV from 1..NumIVs
NumIVs == 1
\* payloads handed to encrypt_data are byte strings of length 0..MaxDataLen
MaxDataLen == 1
\* number of policy ids create_access_policy hands out
MaxPolicies == 1
MaxClock == 2
\* longest byte string padded: two whole blocks and one byte
MaxPadLen == 33
\* rows of the job table and runs of the periodic status check
NumJobs == 2
MaxRuns == 2

\* ------------------------------------------------------------ configuration

\* core/config.py: the default key server list (names; endpoints are opaque)
key_servers == <<"ruby-nodes", "nodeinfra", "studio-mirai">>

\* AES block size used by _pad_data
block_size == 16

Thresholds == 1..MaxThreshold
Keys == 1..NumKeys
IVs == 1..NumIVs
DataBytes == {104}
PolicyTypes == {"allowlist", "timelock"}
Tokens == {"token"}

\* a policy id no create_access_policy call returned
UnknownPolicy == <<"allowlist", 9, 9>>

\* Optional[...] values
None == <<>>
Some(x) == <<x>>

Range(s) == {s[i] : i \in 1..Len(s)}

RECURSIVE SeqsUpTo(_, _)
SeqsUpTo(S, n) ==
    IF n = 0 THEN {<<>>}
    ELSE LET shorter == SeqsUpTo(S, n - 1)
         IN shorter \cup {Append(s, b) : s \in {t \in shorter : Len(t) = n - 1}, b \in S}

Plaintexts == SeqsUpTo(DataBytes, MaxDataLen)

\* ------------------------------------------------------------- conversions

b64encode(x) == <<"b64", x>>
b64decode(s) == s[2]

\* a padding that leaves whole blocks as they are
PadToBlock(data) ==
    LET padding_length == (block_size - (Len(data) % block_size)) % block_size
    IN data \o [j \in 1..padding_length |-> padding_length]

\* _pad_data: PKCS7, always adds 1..block_size bytes
_pad_data(data) ==
    LET padding_length == block_size - (Len(data) % block_size)
    IN data \o [j \in 1..padding_length |-> padding_length]

\* _unpad_data: padded_data[:-padded_data[-1]] with Python slice semantics
\* (a count of 0 or >= len gives the empty string); no validation of the bytes
_unpad_data(padded_data) ==
    LET padding_length == padded_data[Len(padded_data)]
    IN IF padding_length = 0 \/ padding_length >= Len(padded_data)
       THEN <<>>
       ELSE SubSeq(padded_data, 1, Len(padded_data) - padding_length)

\* ------------------------------------------------------ symbolic cryptography

\* Cipher(AES(key), CBC(iv)).encryptor(): the ciphertext of `padded`
AES_CBC_encrypt(key, iv, padded) ==
    [k |-> key, iv |-> iv, pt |-> padded, alt |-> "none"]

\* bytes an unauthenticated CBC decryption can yield instead of pt: other
\* bytes of the same length, whose last byte _unpad_data then takes as a count
Garbled(pt) ==
    {[j \in 1..Len(pt) |-> IF j = Len(pt) THEN last ELSE 77] : last \in {1, 2}} \ {pt}

\* decryptor.finalize() raises ValueError when the ciphertext length is not a
\* multiple of the block size
AES_CBC_raises(ct) == ct.alt = "truncated"

\* Cipher(AES(key), CBC(iv)).decryptor(): the set of possible results
AES_CBC_decrypt(key, iv, ct) ==
    IF ct.alt = "none" /\ key = ct.k /\ iv = ct.iv THEN {ct.pt}
    ELSE Garbled(ct.pt)

\* a 32-byte / 16-byte string different from the given one
OtherKey(k) == k + NumKeys
OtherIV(iv) == iv + NumIVs

\* the DER public key server s publishes, and bytes that are no DER key
PublicKey(s) == [owner |-> s, der |-> TRUE]
JunkKey(s) == [owner |-> s, der |-> FALSE]

\* an encoding of m that anyone can open
ReadableByAnyone(public_key, m) == [pk |-> "anyone", m |-> m]

\* public_key_obj.encrypt(m, OAEP): only the owner's private key opens it
RSA_OAEP_encrypt(public_key, m) == [pk |-> public_key.owner, m |-> m]

\* ------------------------------------------------------------------- state

VARIABLES
    seal_threshold,  \* SEAL_THRESHOLD, read by get_seal_service() on every request
    created,         \* policy ids create_access_policy has returned
    revoked,         \* policy ids DELETE /seal/policy/{id} was called for
    issued,          \* envelopes encrypt_data returned to its callers, each with
                     \* the payload, key and policy state of that call
    enc,             \* the last encrypt_data call
    att,             \* the running / last decryption attempt
    revocation,      \* the last DELETE /seal/policy/{id} call and its answer
    policy_config,   \* the policy_config dict create_access_policy built for each
                     \* id it returned; the code drops it when the call returns
    access,          \* the last POST /seal/verify-access call and its answer
    now,             \* the wall clock
    reports,         \* what the callers of decrypt_data got back from failed
                     \* attempts, each with the point the attempt ended at
    health,          \* the last health_check call: the probe outcomes and what
                     \* it returned
    pad,             \* the byte string given to _pad_data, and what _pad_data and
                     \* then _unpad_data returned for it
    jobs,            \* the rows of the AITrainingJob table, as committed
    task             \* the running / last check_huggingface_job_statuses task: its
                     \* position and the job objects of its session

vars ==
    <<seal_threshold, created, revoked, issued, enc, att, revocation, policy_config,
      access, now, reports, health, pad, jobs, task>>

envelopes == {l.envelope : l \in issued}

\* The code keeps no policy record and has no activation step: a policy id
\* protects data from the moment create_access_policy returned it
\* (routes.py encrypt_file creates the policy and encrypts at once).
PolicyState(policy_id) ==
    IF policy_id \in revoked THEN "REVOKED"
    ELSE IF policy_id \in created THEN "ACTIVE"
    ELSE "UNKNOWN"

\* policy ids callers pass in
PolicyIdInputs == created \cup {UnknownPolicy}

\* ----------------------------------------------------------------- encrypt

PubKeyResponses == {"ok", "junk", "fail"}

\* drop the None entries of a sequence of Optional values
Collect(opts) ==
    LET kept == SelectSeq(opts, LAMBDA o : o # None)
    IN [j \in 1..Len(kept) |-> kept[j][1]]

\* _get_public_keys: the keys of the servers that answered 200, in list order
_get_public_keys(resp) ==
    Collect([j \in 1..Len(key_servers) |->
                IF resp[j] = "ok" THEN Some(PublicKey(key_servers[j]))
                ELSE IF resp[j] = "junk" THEN Some(JunkKey(key_servers[j]))
                ELSE None])

\* a split that hands different servers different values
KeyShareByServer(symmetric_key, server_name) ==
    IF server_name = key_servers[1] THEN symmetric_key ELSE OtherKey(symmetric_key)

\* service.py:190  key_share = symmetric_key
KeyShare(symmetric_key, server_name) == symmetric_key

\* _encrypt_key_share: None when the key bytes do not load as a DER key
_encrypt_key_share(symmetric_key, public_key, policy_id, server_name) ==
    IF ~public_key.der THEN None
    ELSE Some(b64encode(RSA_OAEP_encrypt(public_key,
                                         KeyShare(symmetric_key, server_name))))

\* a pre-flight check that counts the configured servers
EnoughConfigured(public_keys, threshold) == Len(key_servers) >= threshold

\* service.py:34  the pre-flight check on the number of public keys obtained
EnoughKeyServers(public_keys, threshold) == Len(public_keys) >= threshold

\* encrypt_data, given the servers' answers and the random draws
encrypt_data(data, policy_id, threshold, resp, symmetric_key, iv) ==
    LET public_keys == _get_public_keys(resp)
        encrypted_data == AES_CBC_encrypt(symmetric_key, iv, _pad_data(data))
        encrypted_shares ==
            Collect([j \in 1..Len(public_keys) |->
                LET share == _encrypt_key_share(symmetric_key, public_keys[j],
                                                policy_id, key_servers[j])
                IN IF share # None
                   THEN Some([server |-> key_servers[j], share |-> share[1]])
                   ELSE None])
    IN IF ~EnoughKeyServers(public_keys, threshold)
       THEN [result |-> None, keygen |-> FALSE,
             outcome |-> "not_enough_key_servers"]
       ELSE IF Len(encrypted_shares) < threshold
       THEN [result |-> None, keygen |-> TRUE,
             outcome |-> "not_enough_key_shares"]
       ELSE [result |-> Some([encrypted_data |-> b64encode(encrypted_data),
                              iv |-> b64encode(iv),
                              encrypted_shares |-> encrypted_shares,
                              policy_id |-> policy_id,
                              threshold |-> threshold]),
             keygen |-> TRUE,
             outcome |-> "encrypted"]

\* the key servers that answered GET /public-key with a 200
Reachable(resp) == {j \in 1..Len(key_servers) : resp[j] # "fail"}

\* the record kept of one encrypt_data call: its inputs, whether os.urandom(32)
\* was reached, the message logged and whether an envelope was returned
EncRecord(via, policy_id, threshold, resp, r) ==
    [via |-> via, policy_id |-> policy_id, policy_state |-> PolicyState(policy_id),
     threshold |-> threshold, reachable |-> Cardinality(Reachable(resp)),
     keygen |-> r.keygen,
     outcome |-> r.outcome, returned |-> (r.result # None)]

\* a caller invokes SealService.encrypt_data and keeps the envelope; the model
\* follows one envelope from its encryption on
EncryptData ==
    /\ issued = {}
    /\ \E data \in Plaintexts, policy_id \in PolicyIdInputs,
          resp \in [1..Len(key_servers) -> PubKeyResponses],
          symmetric_key \in Keys, iv \in IVs :
          LET r == encrypt_data(data, policy_id, seal_threshold, resp, symmetric_key, iv)
          IN /\ enc' = EncRecord("encrypt_data", policy_id, seal_threshold, resp, r)
             /\ issued' = IF r.result = None THEN issued
                          ELSE issued \cup {[envelope |-> r.result[1], data |-> data,
                                             symmetric_key |-> symmetric_key,
                                             policy_state |-> PolicyState(policy_id)]}
    /\ UNCHANGED <<seal_threshold, created, revoked, att, revocation, policy_config, access, now, reports, health, pad, jobs, task>>

\* ---------------------------------------------------------------- policies

Stamps == {0}
Rands == {0}

\* service.py:130  f"{policy_type}_{utcnow:%Y%m%d_%H%M%S}_{os.urandom(4).hex()}"
create_access_policy(policy_type, stamp, rnd) == <<policy_type, stamp, rnd>>

\* the policy_params dicts callers send: {} and
\* {"addresses": ["0xA"], "unlock_time": 1}
NoParams == [addresses |-> {}, unlock_time |-> None]
ParamInputs == {NoParams, [addresses |-> {"0xA"}, unlock_time |-> Some(1)]}

\* service.py:133-138  the policy_config dict of one create_access_policy call
PolicyConfig(policy_id, policy_type, policy_params) ==
    [policy_id |-> policy_id, policy_type |-> policy_type, params |-> policy_params]

\* the configurations after create_access_policy returned policy_id
Configured(policy_id, policy_type, policy_params) ==
    [p \in created \cup {policy_id} |->
        IF p = policy_id THEN PolicyConfig(policy_id, policy_type, policy_params)
        ELSE policy_config[p]]

\* POST /seal/create-policy: policy_params is any JSON object, policy_type one
\* of the three the route accepts
CreatePolicy ==
    /\ Cardinality(created) < MaxPolicies
    /\ \E policy_type \in PolicyTypes, policy_params \in ParamInputs,
          stamp \in Stamps, rnd \in Rands :
          LET policy_id == create_access_policy(policy_type, stamp, rnd)
          IN /\ created' = created \cup {policy_id}
             /\ policy_config' = Configured(policy_id, policy_type, policy_params)
    /\ UNCHANGED <<seal_threshold, revoked, issued, enc, att, revocation, access, now, reports, health, pad, jobs, task>>

\* routes.py:247-250  the answer of revoke_policy, the same for every id
revoke_policy(policy_id) ==
    [status |-> 200, message |-> "revocation requested"]

\* DELETE /seal/policy/{policy_id}: answers "revocation requested" for any id
\* and changes nothing in the service; the model records the request when the
\* id is one of a policy that exists
RevokePolicy ==
    /\ \E policy_id \in PolicyIdInputs :
          /\ revoked' = IF policy_id \in created THEN revoked \cup {policy_id} ELSE revoked
          /\ revocation' = [policy_id |-> policy_id, state |-> PolicyState(policy_id),
                            answer |-> revoke_policy(policy_id)]
    /\ UNCHANGED <<seal_threshold, created, issued, enc, att, policy_config, access, now, reports, health, pad, jobs, task>>

\* time passes
Tick ==
    /\ now < MaxClock
    /\ now' = now + 1
    /\ UNCHANGED <<seal_threshold, created, revoked, issued, enc, att, revocation,
                   policy_config, access, reports, health, pad, jobs, task>>

\* the operator changes SEAL_THRESHOLD
Reconfigure ==
    /\ \E t \in Thresholds \ {seal_threshold} : seal_threshold' = t
    /\ UNCHANGED <<created, revoked, issued, enc, att, revocation, policy_config, access, now, reports, health, pad, jobs, task>>

\* ----------------------------------------------------------------- decrypt

Requesters == {"0xA", "0xB"}

\* what may have happened to an envelope between encrypt_data and decrypt_data
TamperKinds == {"none", "ciphertext", "truncated"}

Tamper(envelope, kind) ==
    IF kind = "iv"
    THEN [envelope EXCEPT !.iv = b64encode(OtherIV(b64decode(@)))]
    ELSE IF kind = "ciphertext"
    THEN [envelope EXCEPT !.encrypted_data =
            b64encode([b64decode(@) EXCEPT !.alt = "flipped"])]
    ELSE IF kind = "truncated"
    THEN [envelope EXCEPT !.encrypted_data =
            b64encode([b64decode(@) EXCEPT !.alt = "truncated"])]
    ELSE envelope

\* service.py:149-161  verify_access_permission: returns True
verify_access_permission(policy_id, requester_address, access_token) == TRUE

\* service.py:210  the lookup of the server by name
ServerKnown(server_name) == server_name \in Range(key_servers)

\* service.py:222  the timeout of one POST {endpoint}/decrypt, in seconds
request_timeout == 10

\* What POST {endpoint}/decrypt of one key server can come back with, as
\* _request_decryption_key returns it: None (down, no answer within
\* request_timeout, non-200, denied),
\* the share it unwrapped with its private key, or a 200 with other bytes.
ShareResponses(server_name, encrypted_share) ==
    LET w == b64decode(encrypted_share)
    IN {[kind |-> "error", key |-> None],
        [kind |-> "corrupt", key |-> Some(OtherKey(w.m))]}
       \cup (IF w.pk = server_name THEN {[kind |-> "valid", key |-> Some(w.m)]}
             ELSE {})

\* _combine_key_shares: the first share, None for an empty list
_combine_key_shares(key_shares) ==
    IF key_shares # <<>> THEN Some(key_shares[1]) ELSE None

\* service.py:99  the threshold test of decrypt_data
EnoughKeys(decryption_keys, a) == Len(decryption_keys) >= a.threshold

NoAttempt ==
    [pc |-> "idle", via |-> "none", base |-> None, tamper |-> "none",
     policy_id |-> UnknownPolicy, requester |-> "none", access_token |-> "token",
     threshold |-> 0, i |-> 1, decryption_keys |-> <<>>, requests |-> <<>>,
     evaluated |-> "none", revoked_at_start |-> FALSE, at |-> 0,
     symmetric_key |-> None, outcome |-> "none", result |-> None]

\* the envelope a decrypt_data attempt was called with
Argument(a) == Tamper(a.base[1].envelope, a.tamper)

\* decrypt_data after the request loop (service.py:98-121): the possible ends
decrypt_finish(a) ==
    IF ~EnoughKeys(a.decryption_keys, a)
    THEN {[a EXCEPT !.pc = "done", !.outcome = "not_enough_keys"]}
    ELSE LET symmetric_key ==
                 _combine_key_shares(SubSeq(a.decryption_keys, 1, a.threshold))
             encrypted_bytes == b64decode(Argument(a).encrypted_data)
             iv == b64decode(Argument(a).iv)
         IN IF symmetric_key = None
            THEN {[a EXCEPT !.pc = "done", !.outcome = "reconstruct_failed"]}
            ELSE IF AES_CBC_raises(encrypted_bytes)
            THEN {[a EXCEPT !.pc = "done", !.outcome = "exception",
                            !.symmetric_key = symmetric_key]}
            ELSE {[a EXCEPT !.pc = "done", !.outcome = "decrypted",
                            !.symmetric_key = symmetric_key,
                            !.result = Some(_unpad_data(padded_data))] :
                  padded_data \in AES_CBC_decrypt(symmetric_key[1], iv, encrypted_bytes)}

\* the loop of decrypt_data runs on to its next await, or to the end
Advance(a) ==
    IF a.i > Len(Argument(a).encrypted_shares) THEN decrypt_finish(a) ELSE {a}

\* a caller invokes SealService.decrypt_data(encrypted_data, access_token)
DecryptStart ==
    /\ att.pc # "requesting"
    /\ \E l \in issued, kind \in TamperKinds, access_token \in Tokens :
          att' \in Advance([NoAttempt EXCEPT
                              !.pc = "requesting", !.via = "decrypt_data",
                              !.base = Some(l), !.tamper = kind,
                              !.policy_id = l.envelope.policy_id,
                              !.access_token = access_token,
                              !.threshold = seal_threshold, !.at = now,
                              !.revoked_at_start = (l.envelope.policy_id \in revoked)])
    /\ UNCHANGED <<seal_threshold, created, revoked, issued, enc, revocation, policy_config, access, now, reports, health, pad, jobs, task>>

\* one turn of the loop: _request_decryption_key for encrypted_shares[i]
DecryptRequest ==
    /\ att.pc = "requesting"
    /\ LET share == Argument(att).encrypted_shares[att.i]
       IN IF ~ServerKnown(share.server)
          THEN att' \in Advance([att EXCEPT !.i = @ + 1])
          ELSE \E r \in ShareResponses(share.server, share.share) :
                 att' \in Advance([att EXCEPT
                            !.i = @ + 1,
                            !.requests = Append(@, [server |-> share.server,
                                                    kind |-> r.kind]),
                            !.decryption_keys =
                                IF r.key # None THEN Append(@, r.key[1]) ELSE @])
    /\ UNCHANGED <<seal_threshold, created, revoked, issued, enc, revocation, policy_config, access, now, reports, health, pad, jobs, task>>

\* service.py:101,108,125  what decrypt_data hands its caller: the bytes, or
\* None wherever it failed
Returned(a) == a.result

\* the caller of a failed decrypt_data attempt keeps what it got back
CallerNotes ==
    /\ att.pc = "done" /\ att.via = "decrypt_data" /\ att.outcome # "decrypted"
    /\ reports' = reports \cup {[returned |-> Returned(att), ended |-> att.outcome]}
    /\ UNCHANGED <<seal_threshold, created, revoked, issued, enc, att, revocation,
                   policy_config, access, now, health, pad, jobs, task>>

\* a lookup that finds the envelope issued under the policy id
IssuedEnvelope(policy_id) ==
    IF \E l \in issued : l.envelope.policy_id = policy_id
    THEN Some(CHOOSE l \in issued : l.envelope.policy_id = policy_id)
    ELSE None

\* routes.py:102-103  encrypted_data = {}: the lookup of the stored envelope
\* is a TODO and finds nothing
StoredEnvelope(policy_id) == None

\* POST /seal/decrypt (routes.py:85-125): the access check (403), the envelope
\* lookup (404), then decrypt_data on what the lookup found
DecryptFile ==
    /\ att.pc # "requesting"
    /\ \E policy_id \in PolicyIdInputs, requester \in Requesters, access_token \in Tokens :
          LET has_access == verify_access_permission(policy_id, requester, access_token)
              encrypted_data == StoredEnvelope(policy_id)
              call == [NoAttempt EXCEPT
                        !.via = "decrypt_file",
                        !.policy_id = policy_id, !.requester = requester,
                        !.access_token = access_token,
                        !.threshold = seal_threshold, !.at = now,
                        !.revoked_at_start = (policy_id \in revoked),
                        !.evaluated = IF has_access THEN "grant" ELSE "deny"]
          IN IF ~has_access
             THEN att' = [call EXCEPT !.pc = "done", !.outcome = "403"]
             ELSE IF encrypted_data = None
             THEN att' = [call EXCEPT !.pc = "done", !.outcome = "404"]
             ELSE att' \in Advance([call EXCEPT !.pc = "requesting",
                                                !.base = encrypted_data])
    /\ UNCHANGED <<seal_threshold, created, revoked, issued, enc, revocation, policy_config, access, now, reports, health, pad, jobs, task>>

\* POST /seal/verify-access (routes.py:184-206)
VerifyAccess ==
    /\ \E policy_id \in PolicyIdInputs, requester_address \in Requesters,
          access_token \in Tokens :
          access' = [policy_id |-> policy_id, state |-> PolicyState(policy_id),
                     requester_address |-> requester_address,
                     has_access |-> verify_access_permission(policy_id, requester_address,
                                                             access_token)]
    /\ UNCHANGED <<seal_threshold, created, revoked, issued, enc, att, revocation, policy_config, now, reports, health, pad, jobs, task>>

\* POST /seal/encrypt (routes.py:32-83): a fresh policy id, then encrypt_data;
\* the response carries sizes only, the envelope is not kept anywhere
EncryptFile ==
    /\ Cardinality(created) < MaxPolicies
    /\ \E policy_type \in PolicyTypes, policy_params \in ParamInputs,
          stamp \in Stamps, rnd \in Rands,
          data \in Plaintexts, resp \in [1..Len(key_servers) -> PubKeyResponses],
          symmetric_key \in Keys, iv \in IVs :
          LET policy_id == create_access_policy(policy_type, stamp, rnd)
              r == encrypt_data(data, policy_id, seal_threshold, resp, symmetric_key, iv)
          IN /\ created' = created \cup {policy_id}
             /\ policy_config' = Configured(policy_id, policy_type, policy_params)
             /\ enc' = [EncRecord("encrypt_file", policy_id, seal_threshold, resp, r)
                          EXCEPT !.policy_state = "ACTIVE"]
    /\ UNCHANGED <<seal_threshold, revoked, issued, att, revocation, access, now, reports, health, pad, jobs, task>>

\* ----------------------------------------------------------------- padding

\* byte values that matter to the padding: 0, the smallest and the largest
\* padding count, and a byte that is no count
PadBytes == {0, 1, 16, 104}

\* byte strings of every length up to MaxPadLen, with every last byte
PadInputs ==
    {[j \in 1..n |-> IF j = n THEN last ELSE body] :
        n \in 0..MaxPadLen, body \in PadBytes, last \in PadBytes}

NoPadding == [data |-> <<>>, padded |-> None, unpadded |-> None]

\* padded_data = self._pad_data(data)   (service.py:47)
PadData ==
    /\ pad.padded = None
    /\ pad' = [pad EXCEPT !.padded = Some(_pad_data(pad.data))]
    /\ UNCHANGED <<seal_threshold, created, revoked, issued, enc, att, revocation,
                   policy_config, access, now, reports, health, jobs, task>>

\* data = self._unpad_data(padded_data)   (service.py:118)
UnpadData ==
    /\ pad.padded # None /\ pad.unpadded = None
    /\ pad' = [pad EXCEPT !.unpadded = Some(_unpad_data(pad.padded[1]))]
    /\ UNCHANGED <<seal_threshold, created, revoked, issued, enc, att, revocation,
                   policy_config, access, now, reports, health, jobs, task>>

\* ------------------------------------------------------------------ health

\* what GET {endpoint}/health of one key server ends in: a 200, another
\* status, or an exception (connection error, timeout=5)
ProbeResults == {"200", "503", "raise"}

\* a probe that calls every server healthy that answered at all
Answered(probe) == probe # "raise"

\* service.py:268  healthy = response.status == 200; False in the except branch
Healthy(probe) == probe = "200"

\* service.py:264-279  one entry per server of self.key_servers
ServerStatus(probes) ==
    [j \in 1..Len(key_servers) |->
        [name |-> key_servers[j], healthy |-> Healthy(probes[j])]]

\* a quorum test that wants more than threshold healthy servers
MoreThanThreshold(healthy_count, threshold) == healthy_count > threshold

\* service.py:282  overall_healthy = healthy_count >= self.threshold
QuorumHealthy(healthy_count, threshold) == healthy_count >= threshold

\* health_check of a service constructed with `threshold`
health_check(probes, threshold) ==
    LET server_status == ServerStatus(probes)
        healthy_count ==
            Cardinality({j \in 1..Len(server_status) : server_status[j].healthy})
    IN [servers |-> server_status, healthy_count |-> healthy_count,
        threshold |-> threshold,
        overall_healthy |-> QuorumHealthy(healthy_count, threshold)]

\* GET /seal/health (routes.py:222-235)
HealthCheck ==
    /\ \E probes \in [1..Len(key_servers) -> ProbeResults] :
          health' = [called |-> TRUE, probes |-> probes,
                     info |-> health_check(probes, seal_threshold)]
    /\ UNCHANGED <<seal_threshold, created, revoked, issued, enc, att, revocation,
                   policy_config, access, now, reports, pad, jobs, task>>

\* --------------------------------------------------------------- behaviours

NoHealthCheck ==
    [called |-> FALSE, probes |-> <<>>,
     info |-> [servers |-> <<>>, healthy_count |-> 0, threshold |-> 0,
               overall_healthy |-> FALSE]]


\* ------------------------------------------- celery: Hugging Face job status

JobIds == 1..NumJobs

\* celery.py:40-42  the statuses the query leaves out
TerminalStatuses == {"COMPLETED", "FAILED", "CANCELLED"}

\* the statuses that the query lets through; the members of JobStatus other
\* than the three above are defined in app/core/enums, and two stand for them
ActiveStatuses == {"PENDING", "RUNNING"}

\* a row: its status, and whether it is a Hugging Face job with a credential
JobRows == [status : ActiveStatuses \cup TerminalStatuses, hf : BOOLEAN]

\* celery.py:35-43  the filter of the query
ActiveHFJob(row) == row.hf /\ row.status \notin TerminalStatuses

\* what one pass of the loop finds out about a job: the token, the target
\* repo id of its config, the outcome of model_info, the Space id, the outcome
\* of space_info and whether the job is older than its timeout
SpaceStages == {"RUNNING", "ERRORED", "STOPPED", "SLEEPING"}

Findings ==
    [token : {"present", "missing"},
     repo_id : {"set", "missing"},
     model : {"populated", "artifacts_missing", "not_found", "http_401",
              "http_other", "error"},
     space_id : {"set", "missing"},
     space : SpaceStages \cup {"no_runtime", "not_found", "http_401",
                               "http_other", "error"},
     timed_out : BOOLEAN]

\* a decision step that runs whatever the checks did to the status
AnyStatus(status) == TRUE

\* celery.py:137  if job.status not in [JobStatus.FAILED]
NotFailed(status) == status \notin {"FAILED"}

\* celery.py:51-173  the body of the loop for one job: the values assigned to
\* job.status, in order
check_job(status, f) ==
    IF f.token = "missing" THEN <<"FAILED">>
    ELSE IF f.repo_id = "missing" THEN <<"FAILED">>
    ELSE LET model_repo_populated == f.model = "populated"
             after_model == IF f.model = "http_401" THEN <<"FAILED">> ELSE <<>>
             current_space_stage ==
                 IF f.space_id = "set" /\ f.space \in SpaceStages
                 THEN f.space ELSE "UNKNOWN"
             space_is_errored == current_space_stage = "ERRORED"
             space_is_stopped_or_sleeping ==
                 current_space_stage \in {"STOPPED", "SLEEPING"}
             after_space ==
                 IF f.space_id = "set" /\ f.space = "http_401"
                 THEN Append(after_model, "FAILED") ELSE after_model
             job_status ==
                 IF after_space = <<>> THEN status ELSE after_space[Len(after_space)]
         IN IF ~NotFailed(job_status) THEN after_space
            ELSE IF model_repo_populated THEN Append(after_space, "COMPLETED")
            ELSE IF space_is_errored THEN Append(after_space, "FAILED")
            ELSE IF space_is_stopped_or_sleeping /\ ~model_repo_populated
            THEN Append(after_space, "FAILED")
            ELSE IF f.timed_out THEN Append(after_space, "FAILED")
            ELSE after_space

NoJobs == [j \in JobIds |-> [status |-> "CANCELLED", hf |-> FALSE]]

NoTask ==
    [pc |-> "idle", runs |-> 0, active |-> <<>>, i |-> 1, session |-> <<>>,
     log |-> <<>>]

\* the jobs of a set of ids, in ascending order of id
RECURSIVE InOrder(_)
InOrder(ids) ==
    IF ids = {} THEN <<>>
    ELSE LET least == CHOOSE j \in ids : \A k \in ids : j <= k
         IN <<least>> \o InOrder(ids \ {least})

\* celery.py:33-50  the task starts: the query, and the return when it finds
\* nothing
TaskStart ==
    /\ task.pc \in {"idle", "done"}
    /\ task.runs < MaxRuns
    /\ LET active_hf_jobs == InOrder({j \in JobIds : ActiveHFJob(jobs[j])})
       IN task' = [pc |-> IF active_hf_jobs = <<>> THEN "done" ELSE "loop",
                   runs |-> task.runs + 1,
                   active |-> active_hf_jobs, i |-> 1,
                   session |-> [j \in JobIds |-> jobs[j].status],
                   log |-> [j \in JobIds |-> [writes |-> <<>>, populated |-> FALSE]]]
    /\ UNCHANGED <<seal_threshold, created, revoked, issued, enc, att, revocation,
                   policy_config, access, now, reports, health, pad, jobs>>

\* celery.py:51-173  one pass of the loop
CheckJob ==
    /\ task.pc = "loop"
    /\ \E f \in Findings :
          LET job == task.active[task.i]
              writes == check_job(task.session[job], f)
          IN task' = [task EXCEPT
                        !.i = @ + 1,
                        !.pc = IF task.i = Len(task.active) THEN "commit" ELSE "loop",
                        !.session[job] =
                            IF writes = <<>> THEN @ ELSE writes[Len(writes)],
                        !.log[job] =
                            [writes |-> writes,
                             populated |-> (f.token = "present" /\ f.repo_id = "set"
                                            /\ f.model = "populated")]]
    /\ UNCHANGED <<seal_threshold, created, revoked, issued, enc, att, revocation,
                   policy_config, access, now, reports, health, pad, jobs>>

\* celery.py:176-180  db.commit(), or db.rollback() when it raised
TaskCommit ==
    /\ task.pc = "commit"
    /\ \E committed \in BOOLEAN :
          /\ jobs' = IF committed
                     THEN [j \in JobIds |-> [jobs[j] EXCEPT !.status = task.session[j]]]
                     ELSE jobs
          /\ task' = [task EXCEPT !.pc = "done"]
    /\ UNCHANGED <<seal_threshold, created, revoked, issued, enc, att, revocation,
                   policy_config, access, now, reports, health, pad>>

NoCall ==
    [via |-> "none", policy_id |-> UnknownPolicy, policy_state |-> "UNKNOWN",
     threshold |-> 0, reachable |-> 0, keygen |-> FALSE, outcome |-> "none",
     returned |-> FALSE]

NoRevocation ==
    [policy_id |-> UnknownPolicy, state |-> "none",
     answer |-> [status |-> 0, message |-> "none"]]

NoAccessCheck ==
    [policy_id |-> UnknownPolicy, state |-> "none", requester_address |-> "none",
     has_access |-> FALSE]

InitSeal ==
    /\ seal_threshold = 2
    /\ created = {}
    /\ revoked = {}
    /\ issued = {}
    /\ enc = NoCall
    /\ att = NoAttempt
    /\ revocation = NoRevocation
    /\ policy_config = <<>>
    /\ access = NoAccessCheck
    /\ now = 0
    /\ reports = {}
    /\ health = NoHealthCheck

Init ==
    /\ InitSeal
    /\ pad = NoPadding
    /\ jobs = NoJobs
    /\ task = NoTask

\* any byte string may be handed to _pad_data
InitPad ==
    /\ InitSeal
    /\ pad \in {[NoPadding EXCEPT !.data = data] : data \in PadInputs}
    /\ jobs = NoJobs
    /\ task = NoTask

\* the task finds any table of jobs
InitCelery ==
    /\ InitSeal
    /\ pad = NoPadding
    /\ jobs \in [JobIds -> JobRows]
    /\ task = NoTask

\* SealService called with the envelopes it returned. The router is followed
\* apart from it (SpecRoutes): encrypt_file keeps no envelope and decrypt_file
\* finds none, so no envelope ever passes between the two.
Next ==
    \/ CreatePolicy
    \/ RevokePolicy
    \/ Reconfigure
    \/ EncryptData
    \/ DecryptStart
    \/ DecryptRequest
    \/ DecryptFile

Spec == Init /\ [][Next]_vars

\* decrypt_data and what its callers learn from it
NextCaller ==
    \/ Reconfigure
    \/ EncryptData
    \/ DecryptStart
    \/ DecryptRequest
    \/ CallerNotes

SpecCaller == Init /\ [][NextCaller]_vars

\* the HTTP router /seal
NextRoutes ==
    \/ CreatePolicy
    \/ RevokePolicy
    \/ Reconfigure
    \/ EncryptFile
    \/ DecryptFile
    \/ VerifyAccess
    \/ Tick

SpecRoutes == Init /\ [][NextRoutes]_vars

\* SealService.encrypt_data under every configuration and policy state
NextEncrypt ==
    \/ CreatePolicy
    \/ RevokePolicy
    \/ Reconfigure
    \/ EncryptData

SpecEncrypt == Init /\ [][NextEncrypt]_vars

\* SealService.health_check under every configuration
NextHealth ==
    \/ Reconfigure
    \/ HealthCheck

SpecHealth == Init /\ [][NextHealth]_vars

\* SealService.encrypt_data under every configuration, for the policies created
NextSeal ==
    \/ CreatePolicy
    \/ Reconfigure
    \/ EncryptData

SpecSeal == Init /\ [][NextSeal]_vars

\* the fields of a SealService object (service.py:22-24)
ServiceState == [key_servers |-> key_servers, threshold |-> seal_threshold]

\* SealService.encrypt_data and decrypt_data on the envelopes returned
NextKey ==
    \/ Reconfigure
    \/ EncryptData
    \/ DecryptStart
    \/ DecryptRequest

SpecKey == Init /\ [][NextKey]_vars

\* POST /seal/decrypt under the default threshold, while envelopes from
\* encrypt_data exist
NextDecryptFile ==
    \/ CreatePolicy
    \/ EncryptData
    \/ DecryptFile

SpecDecryptFile == Init /\ [][NextDecryptFile]_vars

\* _pad_data and _unpad_data on every byte string of PadInputs
NextPad ==
    \/ PadData
    \/ UnpadData

SpecPad == InitPad /\ [][NextPad]_vars

\* the periodic task check_huggingface_job_statuses on any table of jobs
NextCelery ==
    \/ TaskStart
    \/ CheckJob
    \/ TaskCommit

SpecCelery == InitCelery /\ [][NextCelery]_vars

\* ------------------------------------------------------------------ claims

\* the key servers that returned the share they unwrapped, in one attempt
ValidServers(a) ==
    {a.requests[j].server : j \in {n \in 1..Len(a.requests) : a.requests[n].kind = "valid"}}

\* the attempt got a 200 with bytes that are not the share
SawCorrupt(a) == \E j \in 1..Len(a.requests) : a.requests[j].kind = "corrupt"

\* a finished decrypt_data attempt on an envelope as encrypt_data returned it,
\* sealed under a policy that was and still is in force
HonestAttempt(a) ==
    /\ a.pc = "done"
    /\ a.via = "decrypt_data"
    /\ a.tamper = "none"
    /\ a.base[1].policy_state = "ACTIVE"
    /\ ~a.revoked_at_start
    /\ ~SawCorrupt(a)

\* the shares one encrypt_data call issued, as the key servers unwrap them
IssuedShares(l) ==
    [j \in 1..Len(l.envelope.encrypted_shares) |->
        b64decode(l.envelope.encrypted_shares[j].share).m]

\* the ways to take k of n things, in every order
Selections(n, k) ==
    {sel \in [1..k -> 1..n] : \A x, y \in 1..k : x # y => sel[x] # sel[y]}

Pick(shares, sel) == [j \in 1..Len(sel) |-> shares[sel[j]]]

\* C1: a decryption attempt sends a request to a key server only after policy
\* evaluation granted in that attempt; a denied attempt ends as access denied
\* (403) having sent none.
C1_NoRequestWithoutGrant ==
    /\ att.requests # <<>> => att.evaluated = "grant"
    /\ att.evaluated = "deny" => att.requests = <<>> /\ att.outcome = "403"

\* C2: a decrypt started after the policy of the envelope was revoked never
\* returns plaintext, for an envelope sealed while the policy was in force.
C2_RevocationPrecedence ==
    (/\ att.pc = "done"
     /\ att.base # None
     /\ att.base[1].policy_state = "ACTIVE"
     /\ att.revoked_at_start)
    => att.result = None

\* C3: decrypt returns the plaintext only if at least T distinct key servers
\* returned a valid share in that attempt, T being the threshold recorded in
\* the envelope.
C3_ThresholdOfEnvelope ==
    (att.pc = "done" /\ att.base # None /\ att.result = Some(att.base[1].data))
    => Cardinality(ValidServers(att)) >= Argument(att).threshold

\* C4: round trip - when exactly T (the envelope's threshold) key servers
\* return their valid share and the others do not answer, decrypt returns
\* exactly the payload that was encrypted.
C4_RoundTrip ==
    (HonestAttempt(att) /\ Cardinality(ValidServers(att)) = Argument(att).threshold)
    => att.result = Some(att.base[1].data)

\* C5: partial outage tolerance - failing key servers are absorbed: whenever at
\* least T of the listed servers return valid shares, decrypt succeeds.
C5_PartialOutage ==
    (HonestAttempt(att) /\ Cardinality(ValidServers(att)) >= Argument(att).threshold)
    => (att.outcome = "decrypted" /\ att.result = Some(att.base[1].data))

\* C6: when fewer than T key servers are reachable at the start of encrypt,
\* encrypt fails for lack of key servers, returns no envelope and generates no
\* data key.
C6_PreflightQuorum ==
    (enc.via # "none" /\ enc.reachable < enc.threshold)
    => (/\ ~enc.returned
        /\ ~enc.keygen
        /\ enc.outcome = "not_enough_key_servers")

C6_Witness ==
    /\ enc.via = "encrypt_data"
    /\ enc.reachable = 1
    /\ enc.threshold = 2
    /\ ~enc.returned

\* C7: when the ciphertext was altered, or the key used to open differs from
\* the key the envelope was sealed under, decrypt ends in failure; it never
\* returns a value different from the original payload.
C7_TamperDetection ==
    /\ (/\ att.pc = "done"
        /\ att.base # None
        /\ \/ att.tamper # "none"
           \/ (att.symmetric_key # None
               /\ att.symmetric_key[1] # att.base[1].symmetric_key))
       => att.result = None
    /\ (att.pc = "done" /\ att.result # None)
       => att.result = Some(att.base[1].data)

\* C8: for a split with T >= 2, reconstruction from T-1 or fewer of the issued
\* shares does not yield the data key; no single share equals the data key.
C8_ThresholdSecurity ==
    \A l \in issued :
        l.envelope.threshold >= 2 =>
            \A k \in 1..(l.envelope.threshold - 1) :
                \A sel \in Selections(Len(IssuedShares(l)), k) :
                    _combine_key_shares(Pick(IssuedShares(l), sel))
                        # Some(l.symmetric_key)

\* C9: reconstructing from any T of the shares of one split, taken in any
\* order, yields the key that was split.
C9_OrderSubsetIndependence ==
    \A l \in issued :
        \A sel \in Selections(Len(IssuedShares(l)), l.envelope.threshold) :
            _combine_key_shares(Pick(IssuedShares(l), sel)) = Some(l.symmetric_key)

C9_Witness ==
    \E l \in issued :
        /\ l.envelope.threshold = 2
        /\ Len(l.envelope.encrypted_shares) = 3

AllPolicyIds ==
    {create_access_policy(policy_type, stamp, rnd) :
        policy_type \in PolicyTypes, stamp \in Stamps, rnd \in Rands}
    \cup {UnknownPolicy}

\* C11: a policy comes into force (ACTIVE) only out of the state CREATED, by
\* activation, and from no other state
C11_ActiveOnlyFromCreated ==
    [][\A policy_id \in AllPolicyIds :
          (PolicyState(policy_id)' = "ACTIVE" /\ PolicyState(policy_id) # "ACTIVE")
              => PolicyState(policy_id) = "CREATED"]_vars

\* C12: REVOKED is terminal and a policy is never deleted; revoking a REVOKED
\* policy succeeds and changes nothing; revoking an unknown id fails with
\* PolicyNotFound (404)
C12_RevokedIsTerminal ==
    [][/\ \A policy_id \in AllPolicyIds :
             PolicyState(policy_id) = "REVOKED" => PolicyState(policy_id)' = "REVOKED"
       /\ revocation'.state = "REVOKED" => revocation'.answer.status = 200
       /\ revocation'.state = "UNKNOWN" => revocation'.answer.status = 404]_vars

\* the schema of each policy kind: an allowlist names at least one identity,
\* a timelock has an unlock_time
SchemaOk(config) ==
    /\ config.policy_type = "allowlist" => config.params.addresses # {}
    /\ config.policy_type = "timelock" => config.params.unlock_time # None

\* C13: create makes no policy whose params violate the schema of its kind, so
\* no policy in force has schema-violating params
C13_ParamsValidated ==
    \A policy_id \in created :
        PolicyState(policy_id) = "ACTIVE" => SchemaOk(policy_config[policy_id])

\* C14: for an ACTIVE allowlist policy (with a non-empty address set) the
\* access check grants exactly the requesters named in params.addresses
C14_AllowlistMembership ==
    (/\ access.state = "ACTIVE"
     /\ policy_config[access.policy_id].policy_type = "allowlist"
     /\ SchemaOk(policy_config[access.policy_id]))
        => (access.has_access <=>
                access.requester_address \in policy_config[access.policy_id].params.addresses)

\* the policy a POST /seal/decrypt call named, when it was in force at the call
InForce(a) == a.policy_id \in created /\ ~a.revoked_at_start

\* C15: for an ACTIVE timelock policy the access check grants exactly from
\* unlock_time on: a decrypt before it is denied (403), one at or after it
\* succeeds
C15_TimelockUnlock ==
    (/\ att.pc = "done" /\ att.via = "decrypt_file" /\ InForce(att)
     /\ policy_config[att.policy_id].policy_type = "timelock"
     /\ SchemaOk(policy_config[att.policy_id]))
        => LET unlock_time == policy_config[att.policy_id].params.unlock_time[1]
           IN /\ att.evaluated = "grant" <=> att.at >= unlock_time
              /\ att.at < unlock_time => att.outcome = "403"
              /\ att.at >= unlock_time => att.outcome = "200"

\* a deadline for the whole operation: two request timeouts
OperationDeadline == 2 * request_timeout

\* the seconds an attempt has spent waiting when the servers that gave it no
\* key are servers that never respond: the loop awaits each request in turn
\* and each runs into its own timeout
Waited(a) ==
    request_timeout * Cardinality({j \in 1..Len(a.requests) : a.requests[j].kind = "error"})

\* C16: an attempt ends by the overall operation deadline, however many key
\* servers never respond
C16_OverallDeadline ==
    (att.via = "decrypt_data" /\ att.tamper = "none") => Waited(att) <= OperationDeadline

\* C17: a failed attempt tells its caller which terminal state it ended in, so
\* two attempts that ended differently are never reported alike; and within
\* one attempt no key server is asked twice
C17_FailuresToldApart ==
    /\ \A x, y \in reports : x.returned = y.returned => x.ended = y.ended
    /\ \A j, k \in 1..Len(att.requests) :
          j # k => att.requests[j].server # att.requests[k].server

Edges ==
    {<<"PENDING_POLICY", "DENIED">>, <<"PENDING_POLICY", "POLICY_OK">>,
     <<"POLICY_OK", "COLLECTING_SHARES">>,
     <<"COLLECTING_SHARES", "QUORUM_TIMEOUT">>, <<"COLLECTING_SHARES", "RECONSTRUCTING">>,
     <<"RECONSTRUCTING", "RECONSTRUCTION_FAILED">>, <<"RECONSTRUCTING", "DECRYPTING">>,
     <<"DECRYPTING", "INTEGRITY_FAILED">>, <<"DECRYPTING", "SUCCEEDED">>}

Terminal ==
    {"DENIED", "QUORUM_TIMEOUT", "RECONSTRUCTION_FAILED", "INTEGRITY_FAILED", "SUCCEEDED"}

\* the states of that machine a decrypt_data attempt has been through: the
\* policy step if an evaluation took place, the request loop, and the point
\* at which it returned
Trail(a) ==
    (IF a.evaluated = "none" THEN <<>>
     ELSE <<"PENDING_POLICY", IF a.evaluated = "grant" THEN "POLICY_OK" ELSE "DENIED">>)
    \o <<"COLLECTING_SHARES">>
    \o (IF a.pc # "done" THEN <<>>
        ELSE IF a.outcome = "not_enough_keys" THEN <<"QUORUM_TIMEOUT">>
        ELSE IF a.outcome = "reconstruct_failed"
        THEN <<"RECONSTRUCTING", "RECONSTRUCTION_FAILED">>
        ELSE IF a.outcome = "exception"
        THEN <<"RECONSTRUCTING", "DECRYPTING", "INTEGRITY_FAILED">>
        ELSE <<"RECONSTRUCTING", "DECRYPTING", "SUCCEEDED">>)

\* C20: a decryption attempt starts at PENDING_POLICY, moves only along the
\* edges of the machine (so it never collects shares without the policy step
\* and never leaves a terminal state) and ends in a terminal state
C20_AttemptStateMachine ==
    att.via = "decrypt_data" =>
        LET trail == Trail(att)
        IN /\ trail[1] = "PENDING_POLICY"
           /\ \A j \in 1..(Len(trail) - 1) : <<trail[j], trail[j + 1]>> \in Edges
           /\ att.pc = "done" => trail[Len(trail)] \in Terminal

\* the number of valid shares an attempt held when it sent its j-th request
ValidBefore(a, j) ==
    Cardinality({n \in 1..(j - 1) : a.requests[n].kind = "valid"})

\* C21: as soon as T valid shares are collected the attempt stops asking and
\* waiting for the remaining key servers
C21_RaceToThreshold ==
    (att.via = "decrypt_data" /\ att.tamper = "none") =>
        \A j \in 1..Len(att.requests) : ValidBefore(att, j) < Argument(att).threshold

\* the answers of an attempt that were a 200 with bytes other than the share
CorruptCount(a) ==
    Cardinality({j \in 1..Len(a.requests) : a.requests[j].kind = "corrupt"})

\* an attempt on an untouched envelope, run under the envelope's threshold,
\* in which exactly one collected share was corrupt
OneCorruptShare(a) ==
    /\ a.pc = "done" /\ a.via = "decrypt_data" /\ a.tamper = "none"
    /\ a.threshold = Argument(a).threshold
    /\ CorruptCount(a) = 1

\* C22: one corrupt share among more than T collected does not make decryption
\* fail (a second T-subset is tried); with exactly T collected there is no
\* other subset and the attempt fails with ShareReconstructionFailure
C22_AlternateSubsetRetry ==
    /\ (OneCorruptShare(att) /\ Len(att.decryption_keys) > att.threshold)
            => att.result = Some(att.base[1].data)
    /\ (OneCorruptShare(att) /\ Len(att.decryption_keys) = att.threshold)
            => (att.result = None /\ att.outcome = "reconstruct_failed")

\* the servers whose probe of the last health_check answered 200
ProbedHealthy == {j \in 1..Len(health.probes) : health.probes[j] = "200"}

\* C23: health_check reports overall_healthy exactly when the number of key
\* servers whose probe succeeded is at least the threshold
C23_QuorumHealth ==
    health.called =>
        (health.info.overall_healthy <=>
            Cardinality(ProbedHealthy) >= health.info.threshold)

C23_Witness ==
    /\ health.called /\ health.info.overall_healthy
    /\ Cardinality(ProbedHealthy) = health.info.threshold
    /\ \E j \in 1..Len(health.probes) : health.probes[j] # "200"

\* the private keys a reader of an envelope holds: none of the key servers'
Outsider == {"anyone"}

\* the 32-byte strings a holder of the private keys `holders` reads in an
\* envelope: the ciphertext opens only with the key itself and the IV is no
\* key, so what is left are the shares it can unwrap
KeysReadable(envelope, holders) ==
    {b64decode(envelope.encrypted_shares[j].share).m :
        j \in {n \in 1..Len(envelope.encrypted_shares) :
                 b64decode(envelope.encrypted_shares[n].share).pk \in holders}}

\* an encrypt_data or decrypt_data call began, ran on or returned in this step
ServiceCall == enc' # enc \/ att' # att

\* C25: the data key is never exposed or kept: every share of a returned
\* envelope is the key wrapped under the public key of a configured key server,
\* so a reader without a server's private key reads no key in the envelope,
\* and no step of encrypt_data or decrypt_data, successful or failed, writes
\* to the fields of the service
C25_KeyNeverExposed ==
    /\ [](\A l \in issued :
            /\ KeysReadable(l.envelope, Outsider) = {}
            /\ \A j \in 1..Len(l.envelope.encrypted_shares) :
                 b64decode(l.envelope.encrypted_shares[j].share).pk \in Range(key_servers))
    /\ [][ServiceCall => ServiceState' = ServiceState]_vars

\* an envelope was returned with the key wrapped in each of its shares, and a
\* decryption attempt on it failed for lack of keys
C25_Witness ==
    /\ \E l \in issued :
         /\ l.envelope.encrypted_shares # <<>>
         /\ \A j \in 1..Len(l.envelope.encrypted_shares) :
              b64decode(l.envelope.encrypted_shares[j].share).m = l.symmetric_key
    /\ att.pc = "done" /\ att.outcome = "not_enough_keys"
    /\ enc.returned

\* C27: POST /seal/decrypt never returns plaintext: a denied request ends in
\* 403, a granted one in 404 "Encrypted data not found", and in both cases
\* without a decrypt_data call, a request to a key server or a result
C27_DecryptFileFindsNothing ==
    att.via = "decrypt_file" =>
        /\ att.pc = "done"
        /\ att.outcome = (IF att.evaluated = "grant" THEN "404" ELSE "403")
        /\ att.base = None /\ att.requests = <<>> /\ att.decryption_keys = <<>>
        /\ att.result = None

\* a granted request for a policy id under which an envelope was issued
C27_Witness ==
    /\ att.via = "decrypt_file" /\ att.evaluated = "grant" /\ att.outcome = "404"
    /\ att.policy_id \in created
    /\ \E l \in issued : l.envelope.policy_id = att.policy_id

\* C28: health_check returns one entry per configured key server, in
\* configuration order; an entry is healthy exactly when that server's probe
\* answered 200, whatever happened to the probes before it, and healthy_count
\* is the number of healthy entries, between 0 and the number of servers
C28_OneEntryPerServer ==
    health.called =>
        LET servers == health.info.servers
        IN /\ Len(servers) = Len(key_servers)
           /\ \A j \in 1..Len(servers) :
                /\ servers[j].name = key_servers[j]
                /\ servers[j].healthy <=> health.probes[j] = "200"
           /\ health.info.healthy_count =
                Cardinality({j \in 1..Len(servers) : servers[j].healthy})
           /\ health.info.healthy_count \in 0..Len(key_servers)

\* the first probe raised, the second answered 503 and the third 200
C28_Witness ==
    /\ health.called
    /\ health.probes = <<"raise", "503", "200">>
    /\ health.info.healthy_count = 1
    /\ health.info.servers[3].healthy

\* C30: padding round trip: for every byte string, the empty one and whole
\* blocks included, _pad_data returns a string whose length is a multiple of
\* 16 and greater than the length of the input, and _unpad_data of it is the
\* input
C30_PaddingRoundTrip ==
    /\ pad.padded # None =>
         /\ Len(pad.padded[1]) % block_size = 0
         /\ Len(pad.padded[1]) > Len(pad.data)
    /\ pad.unpadded # None => pad.unpadded[1] = pad.data

\* one whole block that ends in the byte 16 went through both calls
C30_Witness ==
    /\ Len(pad.data) = block_size /\ pad.data[block_size] = 16
    /\ pad.padded # None /\ Len(pad.padded[1]) = 2 * block_size
    /\ pad.unpadded = Some(pad.data)

\* no COMPLETED is assigned after a FAILED
FailedStays(writes) ==
    \A a, b \in 1..Len(writes) :
        (a < b /\ writes[a] = "FAILED") => writes[b] # "COMPLETED"

\* a status changes only from a non-terminal one to COMPLETED or FAILED
OnlyEnds(before, after) ==
    before # after =>
        (before \notin TerminalStatuses /\ after \in {"COMPLETED", "FAILED"})

\* C29: check_huggingface_job_statuses changes a job only from a non-terminal
\* status to COMPLETED or FAILED, in its session and in the table: a job that
\* was COMPLETED, FAILED or CANCELLED when the task ran stays as it was, and a
\* job the run marked FAILED is not marked COMPLETED later in the same run
C29_OnlyEndsJobs ==
    /\ [](\A j \in DOMAIN task.log : FailedStays(task.log[j].writes))
    /\ [][/\ \A j \in JobIds : OnlyEnds(jobs[j].status, jobs'[j].status)
          /\ task.pc = "loop" =>
               \A j \in JobIds : OnlyEnds(task.session[j], task'.session[j])]_vars

\* the model repo of a job was populated and its Space check got a 401: the
\* job was marked FAILED, stayed FAILED and was committed so, next to a job
\* that was terminal from the start
C29_Witness ==
    /\ task.pc = "done"
    /\ \E j \in JobIds :
         /\ task.log[j].populated /\ task.log[j].writes = <<"FAILED">>
         /\ jobs[j].status = "FAILED"
    /\ \E j \in JobIds : jobs[j].hf /\ jobs[j].status = "CANCELLED"

====
